---- MODULE Spec2Model ----
(***************************************************************************)
(* Model of the streaming chat client of frontend-rag-knowledge-base:      *)
(*   frontend/lib/api.ts      sendStreamChatMessage (SSE transport reader) *)
(*   frontend/hooks/useChat.ts useChat (conversation state, render gating) *)
(*                                                                         *)
(* Text is a sequence of one-character strings.  The wire is a sequence of *)
(* units: "data:" and " " together are the 6-character frame prefix        *)
(* 'data: ', "NL" is one line feed, an opening unit such as "{c" stands    *)
(* for the JSON text up to the data value, "}" closes it; every other unit *)
(* is one character of the data value.  A read chunk is any non-empty run  *)
(* of units, so a chunk boundary may fall inside the prefix, inside the    *)
(* payload and between the two line feeds of the delimiter.                *)
(*                                                                         *)
(* Array indices are 0-based as in the source: messages[idx] of the source *)
(* is messages[idx + 1] here.                                              *)
(***************************************************************************)
EXTENDS Integers, Sequences, FiniteSets, TLC

(* ---------------- bounds of the model ---------------- *)
MaxTurns == 2
MaxTime == 32
TickMs == 16
MaxPending == 1
MaxChunk == 24

(* ---------------- program constants ---------------- *)
minFrameTime == 16

Null == <<"<null>">>
NoRaf == 0

(* ---------------- text helpers ---------------- *)
RECURSIVE TrimStart(_)
TrimStart(s) ==
  IF s # <<>> /\ Head(s) = " " THEN TrimStart(Tail(s)) ELSE s

RECURSIVE TrimEnd(_)
TrimEnd(s) ==
  IF s # <<>> /\ s[Len(s)] = " " THEN TrimEnd(SubSeq(s, 1, Len(s) - 1)) ELSE s

Trim(s) == TrimEnd(TrimStart(s))

Range(s) == { s[i] : i \in DOMAIN s }

StartsWith(s, p) == Len(s) >= Len(p) /\ SubSeq(s, 1, Len(p)) = p

(* ---------------- wire format ---------------- *)
DataPrefix == <<"data:", " ">>
Delim == <<"NL", "NL">>

OpenOf ==
  [session_id |-> "{i", sources |-> "{r", status |-> "{s",
   cached |-> "{h", content |-> "{c", error |-> "{e"]

EventTypes == DOMAIN OpenOf

Ev(t, d) == [type |-> t, data |-> d]

(* JSON values that are not events: the value null (reading its .type      *)
(* throws a TypeError), a number (its .type is undefined), and the data    *)
(* of an object that has no data member                                    *)
JsonNull == Ev("<null>", <<>>)
JsonNumber == Ev("<undefined>", <<"7">>)
Undefined == <<"<undefined>">>

(* what the server writes for one frame *)
RECURSIVE Utf8(_)
Utf8(d) ==
  IF d = <<>> THEN <<>>
  ELSE (IF Head(d) = "E" THEN <<"e1", "e2">> ELSE <<Head(d)>>) \o Utf8(Tail(d))

Frame(kind, t, d) ==
  CASE kind = "event"     -> DataPrefix \o <<OpenOf[t]>> \o Utf8(d) \o <<"}">> \o Delim
    [] kind = "truncated" -> DataPrefix \o <<OpenOf[t]>> \o Utf8(d) \o Delim
    [] kind = "comment"   -> <<":">> \o Utf8(d) \o Delim
    [] kind = "unterminated" -> DataPrefix \o <<OpenOf[t]>> \o Utf8(d) \o <<"}">>
    [] kind = "null"      -> DataPrefix \o <<"null">> \o Delim
    [] kind = "number"    -> DataPrefix \o <<"7">> \o Delim
    [] kind = "nodata"    -> DataPrefix \o <<OpenOf[t] \o "!}">> \o Delim

F(kind, t, d) == [kind |-> kind, type |-> t, data |-> d]

RECURSIVE Encode(_)
Encode(fs) ==
  IF fs = <<>> THEN <<>>
  ELSE Frame(Head(fs).kind, Head(fs).type, Head(fs).data) \o Encode(Tail(fs))

(* buffer.split('\n\n'): the pieces between delimiters, scanning left to   *)
(* right; the last piece is the text after the last delimiter.             *)
RECURSIVE SplitAcc(_, _, _)
SplitAcc(s, cur, acc) ==
  IF s = <<>> THEN Append(acc, cur)
  ELSE IF StartsWith(s, Delim)
       THEN SplitAcc(SubSeq(s, 3, Len(s)), <<>>, Append(acc, cur))
       ELSE SplitAcc(Tail(s), Append(cur, Head(s)), acc)

Split(s) == SplitAcc(s, <<>>, <<>>)

(* JSON.parse(line.slice(6)): ok is FALSE when it throws *)
JSONParse(p) ==
  IF p = <<"null">> THEN [ok |-> TRUE, value |-> JsonNull]
  ELSE IF p = <<"7">> THEN [ok |-> TRUE, value |-> JsonNumber]
  ELSE IF Len(p) = 1 /\ \E t \in EventTypes : p[1] = OpenOf[t] \o "!}"
  THEN [ok |-> TRUE,
        value |-> Ev(CHOOSE t \in EventTypes : p[1] = OpenOf[t] \o "!}", Undefined)]
  ELSE
  IF /\ Len(p) >= 2
     /\ p[Len(p)] = "}"
     /\ \E t \in EventTypes : OpenOf[t] = p[1]
     /\ \A i \in 2..(Len(p) - 1) : p[i] \notin {"}", "NL", "data:"}
  THEN [ok |-> TRUE,
        value |-> Ev(CHOOSE t \in EventTypes : OpenOf[t] = p[1],
                     SubSeq(p, 2, Len(p) - 1))]
  ELSE [ok |-> FALSE, value |-> Ev("none", <<>>)]

(* ---------------- messages ---------------- *)
(* { ...m, f: v, ... } *)
Spread(m, upd) ==
  [f \in (DOMAIN m) \cup (DOMAIN upd) |-> IF f \in DOMAIN upd THEN upd[f] ELSE m[f]]

IsStreaming(m) == "isStreaming" \in DOMAIN m /\ m.isStreaming

(* newMessages[idx] && newMessages[idx].role === 'assistant' *)
IsAssistantAt(msgs, idx) ==
  /\ idx + 1 \in 1..Len(msgs)
  /\ msgs[idx + 1].role = "assistant"

(* the setMessages updater shared by commits and finalizations *)
PatchAssistant(msgs, idx, upd) ==
  IF IsAssistantAt(msgs, idx)
  THEN [msgs EXCEPT ![idx + 1] = Spread(@, upd)]
  ELSE msgs

StatusConnecting == <<"connecting...">>
StatusFromCache == <<"from-cache">>
ErrorPrefix == <<"sorry-an-error-occurred:">>
UnknownError == <<"unknown-error">>
RequestFailed == <<"request-failed">>
CannotReadResponse == <<"cannot-read-response">>

(* `抱歉，发生了错误：${error instanceof Error ? error.message : '未知错误'}` *)
ErrorContent(err) ==
  ErrorPrefix \o (IF err.isError THEN err.message ELSE UnknownError)

Error(msg) == [isError |-> TRUE, message |-> msg]
NoError == [isError |-> FALSE, message |-> <<>>]

(* ---------------- inputs ---------------- *)
Texts == { <<>>, <<" ">>, <<" ", "h", " ">> }

SessionIds == { <<"s2">> }

(* what GET /sessions/:id/messages returns, after the map of loadSession *)
LoadedMessages(sid) ==
  << [role |-> "user", content |-> <<"q">>, sources |-> <<>>, isStreaming |-> FALSE],
     [role |-> "assistant", content |-> <<"r">>, sources |-> <<"S0">>, isStreaming |-> FALSE] >>

(* reasons for which the request fails before a body is read *)
FetchErrors == { Error(RequestFailed), Error(CannotReadResponse) }

(* reasons for which reader.read() rejects *)
ReadErrors == { Error(<<"n">>) }

(* the response bodies the server may send, as frame lists *)
FrameLists ==
  { << F("event", "session_id", <<"s1">>), F("event", "content", <<"a">>),
       F("event", "content", <<"E">>) >>,
    << F("event", "session_id", <<"s2">>), F("event", "content", <<"a">>),
       F("truncated", "content", <<"x">>), F("event", "content", <<"b">>) >>,
    << F("event", "content", <<"a">>), F("event", "content", <<"b">>),
       F("event", "error", <<"e">>), F("event", "content", <<"c">>) >>,
    << F("event", "sources", <<"S1">>), F("event", "status", <<"t">>),
       F("event", "cached", <<>>), F("event", "content", <<"a">>),
       F("event", "sources", <<"S2">>), F("comment", "none", <<"k">>),
       F("unterminated", "content", <<"c">>) >>,
    << F("event", "content", <<"a">>), F("number", "none", <<>>),
       F("nodata", "content", <<>>), F("null", "none", <<>>),
       F("event", "content", <<"b">>) >> }

(* ---------------- state ---------------- *)
VARIABLES
  messages, isLoading, sessionId, status, isCached,      \* useState
  currentStreamContent, currentSources,                  \* useRef
  assistantMessageIndexRef, lastRenderTimeRef,
  pendingContentRef, rafIdRef,
  now,            \* performance.now()
  rafQueue,       \* animation-frame callbacks requested and not yet run
  pc,             \* position of the running sendMessage call
  served,         \* frame list of the response being read
  wire,           \* units of the body not yet read
  buffer,         \* sendStreamChatMessage: buffer
  decoderHeld,    \* TextDecoder: bytes of an incomplete character
  pendingLines,   \* complete lines of the last chunk not yet looped over
  yielded,        \* events the generator has yielded for this request
  requests,       \* POST /chat/stream requests opened so far
  pendingOps,     \* getSessionMessages / clearSession calls in flight
  caught,         \* the error caught by the last sendMessage call, if any
  call,           \* the last sendMessage invocation
  commitCount,    \* commits run since the last accepted sendMessage
  sessionChanged  \* loadSession/startNewChat/clearChat applied since then

chatVars ==
  <<messages, isLoading, sessionId, status, isCached>>
refVars ==
  <<currentStreamContent, currentSources, assistantMessageIndexRef,
    lastRenderTimeRef, pendingContentRef, rafIdRef>>
streamVars == <<served, wire, buffer, decoderHeld, pendingLines, yielded>>
vars ==
  <<messages, isLoading, sessionId, status, isCached,
    currentStreamContent, currentSources, assistantMessageIndexRef,
    lastRenderTimeRef, pendingContentRef, rafIdRef, now, rafQueue, pc,
    served, wire, buffer, decoderHeld, pendingLines, yielded, requests,
    pendingOps, caught, call, commitCount, sessionChanged>>

(* ---------------- components/ChatInput: state ---------------- *)
MaxKeystrokes == 3
MaxClock == 600
ClockStep == 100

DebounceMs == 300
MinQueryLength == 2
NoTimer == 0
NoSelection == -1

VARIABLES
  input, suggestions, showSuggestions, selectedIndex,    \* useState
  debounceTimerRef,                                      \* useRef
  clock,          \* the time of the timers, in ms
  timers,         \* setTimeout callbacks set and neither run nor cleared
  lookups,        \* getSuggestions requests in flight
  lookupCount,    \* getSuggestions requests issued so far
  lastKeystroke,  \* the last call of handleInputChange
  shortQuery      \* fetchSuggestions ran for a short query, no request since

suggestVars ==
  <<input, suggestions, showSuggestions, selectedIndex, debounceTimerRef,
    clock, timers, lookups, lookupCount, lastKeystroke, shortQuery>>

SuggestInit ==
  /\ input = <<>>
  /\ suggestions = <<>>
  /\ showSuggestions = FALSE
  /\ selectedIndex = NoSelection
  /\ debounceTimerRef = NoTimer
  /\ clock = 0
  /\ timers = {}
  /\ lookups = {}
  /\ lookupCount = 0
  /\ lastKeystroke = [count |-> 0, at |-> 0, value |-> <<>>]
  /\ shortQuery = FALSE

(* ---------------- components/MessageList: TextPart state ---------------- *)
MaxTarget == 4
MaxMounts == 2

BaselineDelay == 15
SpaceDelay == 30
CjkPunctuationDelay == 80
AsciiPunctuationDelay == 60
NoUpdate == <<"<none>">>

VARIABLES
  content, showCursor,                    \* props of the mounted TextPart
  displayedContent, isTyping,             \* useState, as last rendered
  typingTimeoutRef,                       \* useRef
  pendingDisplayed,  \* setDisplayedContent value not yet rendered
  typingTimers,      \* setTimeout(typeNextChar) callbacks set and pending
  effectPending,     \* the effect of the last render has not run yet
  hasCleanup,        \* the last effect run returned its cleanup function
  mounted,           \* "no", "yes", "gone"
  instance           \* the TextPart instances mounted in the slot so far

revealVars ==
  <<content, showCursor, displayedContent, isTyping, typingTimeoutRef,
    pendingDisplayed, typingTimers, effectPending, hasCleanup, mounted,
    instance>>

componentVars == <<suggestVars, revealVars>>

RevealInit ==
  /\ content = <<>>
  /\ showCursor = FALSE
  /\ displayedContent = <<>>
  /\ isTyping = FALSE
  /\ typingTimeoutRef = NoTimer
  /\ pendingDisplayed = NoUpdate
  /\ typingTimers = {}
  /\ effectPending = FALSE
  /\ hasCleanup = FALSE
  /\ mounted = "no"
  /\ instance = 0

Init ==
  /\ messages = <<>>
  /\ isLoading = FALSE
  /\ sessionId = Null
  /\ status = <<>>
  /\ isCached = FALSE
  /\ currentStreamContent = <<>>
  /\ currentSources = <<>>
  /\ assistantMessageIndexRef = 0
  /\ lastRenderTimeRef = 0
  /\ pendingContentRef = <<>>
  /\ rafIdRef = NoRaf
  /\ now = 0
  /\ rafQueue = {}
  /\ pc = "idle"
  /\ served = <<>>
  /\ wire = <<>>
  /\ buffer = <<>>
  /\ decoderHeld = <<>>
  /\ pendingLines = <<>>
  /\ yielded = <<>>
  /\ requests = <<>>
  /\ pendingOps = {}
  /\ caught = NoError
  /\ call = [flip |-> FALSE, text |-> <<>>, accepted |-> FALSE]
  /\ commitCount = 0
  /\ sessionChanged = FALSE
  /\ SuggestInit
  /\ RevealInit

(* the sendMessage call is suspended at an await or has returned: only     *)
(* then can a task (user action, animation frame, network completion) run *)
TaskBoundary == pc \notin {"lines", "final"}

(* ---------------- useChat: render gating ---------------- *)
(* mutant: a commit is skipped when the last one is less than 16 ms old *)
updateStreamingMessage_Throttled(pend) ==
  IF pend = <<>> \/ now - lastRenderTimeRef < minFrameTime
  THEN /\ pendingContentRef' = pend
       /\ UNCHANGED <<messages, lastRenderTimeRef, commitCount>>
  ELSE /\ pendingContentRef' = <<>>
       /\ messages' = PatchAssistant(messages, assistantMessageIndexRef,
                        [content |-> pend, sources |-> currentSources,
                         isStreaming |-> TRUE])
       /\ lastRenderTimeRef' = now
       /\ commitCount' = commitCount + 1

(* updateStreamingMessage, entered with pendingContentRef.current = pend *)
updateStreamingMessage(pend) ==
  IF pend = <<>>
  THEN /\ pendingContentRef' = pend
       /\ UNCHANGED <<messages, lastRenderTimeRef, commitCount>>
  ELSE /\ pendingContentRef' = <<>>
       /\ messages' = PatchAssistant(messages, assistantMessageIndexRef,
                        [content |-> pend, sources |-> currentSources,
                         isStreaming |-> TRUE])
       /\ lastRenderTimeRef' = now
       /\ commitCount' = commitCount + 1

(* mutant: scheduleRender does not look at rafIdRef *)
scheduleRender_NoPendingCheck(pend) ==
  IF now - lastRenderTimeRef >= minFrameTime
  THEN /\ updateStreamingMessage(pend)
       /\ UNCHANGED <<rafIdRef, rafQueue>>
  ELSE LET id == CHOOSE i \in 1..(Cardinality(rafQueue) + 1) : i \notin rafQueue
       IN /\ rafIdRef' = id
          /\ rafQueue' = rafQueue \cup {id}
          /\ pendingContentRef' = pend
          /\ UNCHANGED <<messages, lastRenderTimeRef, commitCount>>

(* scheduleRender, entered with pendingContentRef.current = pend *)
scheduleRender(pend) ==
  IF rafIdRef # NoRaf
  THEN /\ pendingContentRef' = pend
       /\ UNCHANGED <<messages, lastRenderTimeRef, commitCount, rafIdRef, rafQueue>>
  ELSE IF now - lastRenderTimeRef >= minFrameTime
       THEN /\ updateStreamingMessage(pend)
            /\ UNCHANGED <<rafIdRef, rafQueue>>
       ELSE LET id == CHOOSE i \in 1..(Cardinality(rafQueue) + 1) : i \notin rafQueue
            IN /\ rafIdRef' = id
               /\ rafQueue' = rafQueue \cup {id}
               /\ pendingContentRef' = pend
               /\ UNCHANGED <<messages, lastRenderTimeRef, commitCount>>

(* the callback given to requestAnimationFrame runs *)
RafCallback(id) ==
  /\ TaskBoundary
  /\ id \in rafQueue
  /\ rafQueue' = rafQueue \ {id}
  /\ rafIdRef' = NoRaf
  /\ updateStreamingMessage(pendingContentRef)
  /\ UNCHANGED <<isLoading, sessionId, status, isCached, currentStreamContent,
                 currentSources, assistantMessageIndexRef, now, pc, streamVars,
                 requests, pendingOps, caught, call, sessionChanged>>

(* performance.now() advances *)
Tick ==
  /\ now + TickMs <= MaxTime
  /\ now' = now + TickMs
  /\ UNCHANGED <<chatVars, refVars, rafQueue, pc, streamVars, requests,
                 pendingOps, caught, call, commitCount, sessionChanged>>

(* ---------------- lib/api.ts: sendStreamChatMessage ---------------- *)
(* decoder.decode(value, {stream: true}): "e1" "e2" are the two bytes of   *)
(* the character "E"; a lead byte at the end of a chunk is held back       *)
RECURSIVE DecodeChars(_)
DecodeChars(bytes) ==
  IF bytes = <<>> THEN <<>>
  ELSE IF Head(bytes) = "e1"
       THEN IF Len(bytes) >= 2 /\ bytes[2] = "e2"
            THEN <<"E">> \o DecodeChars(SubSeq(bytes, 3, Len(bytes)))
            ELSE IF Len(bytes) = 1 THEN <<>>
                 ELSE <<"?">> \o DecodeChars(Tail(bytes))
       ELSE IF Head(bytes) = "e2"
            THEN <<"?">> \o DecodeChars(Tail(bytes))
            ELSE <<Head(bytes)>> \o DecodeChars(Tail(bytes))

(* mutant: decoder.decode(value) without {stream: true} holds nothing back *)
DecodeHeld_NoStream(bytes) == <<>>

DecodeHeld(bytes) ==
  IF bytes # <<>> /\ bytes[Len(bytes)] = "e1" THEN <<"e1">> ELSE <<>>

(* the request resolves with an ok response whose body can be read *)
FetchOk(fs) ==
  /\ pc = "fetch"
  /\ pc' = "read"
  /\ served' = fs
  /\ wire' = Encode(fs)
  /\ buffer' = <<>>
  /\ decoderHeld' = <<>>
  /\ pendingLines' = <<>>
  /\ yielded' = <<>>
  /\ UNCHANGED <<chatVars, refVars, now, rafQueue, requests, pendingOps, caught, call,
                 commitCount, sessionChanged>>

(* mutant: the catch block without the finally block *)
CatchFinally_NoFinally(err) ==
  /\ messages' = PatchAssistant(messages, assistantMessageIndexRef,
                   [content |-> ErrorContent(err), isStreaming |-> FALSE])
  /\ isLoading' = isLoading
  /\ pc' = "failed"
  /\ wire' = <<>>
  /\ buffer' = <<>>
  /\ decoderHeld' = <<>>
  /\ pendingLines' = <<>>
  /\ yielded' = <<>>
  /\ caught' = err
  /\ UNCHANGED <<served, sessionId, status, isCached, refVars, now, rafQueue,
                 requests, pendingOps, call, commitCount, sessionChanged>>

(* catch (error) { ... } finally { setIsLoading(false) } of sendMessage *)
CatchFinally(err) ==
  /\ messages' = PatchAssistant(messages, assistantMessageIndexRef,
                   [content |-> ErrorContent(err), isStreaming |-> FALSE])
  /\ isLoading' = FALSE
  /\ pc' = "failed"
  /\ wire' = <<>>
  /\ buffer' = <<>>
  /\ decoderHeld' = <<>>
  /\ pendingLines' = <<>>
  /\ yielded' = <<>>
  /\ caught' = err
  /\ UNCHANGED <<served, sessionId, status, isCached, refVars, now, rafQueue,
                 requests, pendingOps, call, commitCount, sessionChanged>>

(* fetch rejects, !response.ok, or response.body has no reader *)
FetchFail(err) ==
  /\ pc = "fetch"
  /\ CatchFinally(err)

(* reader.read() resolves with the next k units of the body *)
ReadChunk(k) ==
  /\ pc = "read"
  /\ k \in 1..Len(wire)
  /\ LET value == decoderHeld \o SubSeq(wire, 1, k)
         lines == Split(buffer \o DecodeChars(value))
     IN /\ decoderHeld' = DecodeHeld(value)
        /\ buffer' = lines[Len(lines)]
        /\ pendingLines' = SubSeq(lines, 1, Len(lines) - 1)
        /\ pc' = IF Len(lines) > 1 THEN "lines" ELSE "read"
  /\ wire' = SubSeq(wire, k + 1, Len(wire))
  /\ UNCHANGED <<served, yielded, chatVars, refVars, now, rafQueue, requests,
                 pendingOps, caught, call, commitCount, sessionChanged>>

(* reader.read() rejects *)
ReadFail(err) ==
  /\ pc = "read"
  /\ CatchFinally(err)

(* ---------------- useChat: the for-await loop body ---------------- *)
NextLinePc == IF Len(pendingLines) > 1 THEN "lines" ELSE "read"

HeadParse ==
  IF StartsWith(Head(pendingLines), DataPrefix)
  THEN JSONParse(SubSeq(Head(pendingLines), 3, Len(Head(pendingLines))))
  ELSE [ok |-> FALSE, value |-> Ev("none", <<>>)]

(* mutant: JSON.parse outside a try block, its exception reaches the hook *)
SkipLine_Throws ==
  /\ pc = "lines"
  /\ ~HeadParse.ok
  /\ CatchFinally(Error(<<"SyntaxError">>))

(* a line without the prefix, or whose payload JSON.parse rejects *)
SkipLine ==
  /\ pc = "lines"
  /\ ~HeadParse.ok
  /\ pendingLines' = Tail(pendingLines)
  /\ pc' = NextLinePc
  /\ UNCHANGED <<served, wire, buffer, decoderHeld, yielded, chatVars, refVars,
                 now, rafQueue, requests, pendingOps, caught, call, commitCount,
                 sessionChanged>>

Yielded(t) ==
  /\ pc = "lines"
  /\ HeadParse.ok
  /\ HeadParse.value.type = t

OnSessionId ==
  /\ Yielded("session_id")
  /\ sessionId' = HeadParse.value.data
  /\ pendingLines' = Tail(pendingLines)
  /\ yielded' = Append(yielded, HeadParse.value)
  /\ pc' = NextLinePc
  /\ UNCHANGED <<messages, isLoading, status, isCached, refVars, now, rafQueue,
                 served, wire, buffer, decoderHeld, requests, pendingOps, caught, call,
                 commitCount, sessionChanged>>

OnSources ==
  /\ Yielded("sources")
  /\ currentSources' = HeadParse.value.data
  /\ pendingLines' = Tail(pendingLines)
  /\ yielded' = Append(yielded, HeadParse.value)
  /\ pc' = NextLinePc
  /\ UNCHANGED <<chatVars, currentStreamContent, assistantMessageIndexRef,
                 lastRenderTimeRef, pendingContentRef, rafIdRef, now, rafQueue,
                 served, wire, buffer, decoderHeld, requests, pendingOps, caught, call,
                 commitCount, sessionChanged>>

OnStatus ==
  /\ Yielded("status")
  /\ status' = HeadParse.value.data
  /\ pendingLines' = Tail(pendingLines)
  /\ yielded' = Append(yielded, HeadParse.value)
  /\ pc' = NextLinePc
  /\ UNCHANGED <<messages, isLoading, sessionId, isCached, refVars, now,
                 rafQueue, served, wire, buffer, decoderHeld, requests,
                 pendingOps, caught, call, commitCount, sessionChanged>>

(* mutant: the cached event also writes its notice into the placeholder *)
OnCached_WritesMessage ==
  /\ Yielded("cached")
  /\ isCached' = TRUE
  /\ status' = StatusFromCache
  /\ messages' = PatchAssistant(messages, assistantMessageIndexRef,
                   [content |-> StatusFromCache])
  /\ pendingLines' = Tail(pendingLines)
  /\ yielded' = Append(yielded, HeadParse.value)
  /\ pc' = NextLinePc
  /\ UNCHANGED <<isLoading, sessionId, refVars, now, rafQueue,
                 served, wire, buffer, decoderHeld, requests, pendingOps, caught, call,
                 commitCount, sessionChanged>>

OnCached ==
  /\ Yielded("cached")
  /\ isCached' = TRUE
  /\ status' = StatusFromCache
  /\ pendingLines' = Tail(pendingLines)
  /\ yielded' = Append(yielded, HeadParse.value)
  /\ pc' = NextLinePc
  /\ UNCHANGED <<messages, isLoading, sessionId, refVars, now, rafQueue,
                 served, wire, buffer, decoderHeld, requests, pendingOps, caught, call,
                 commitCount, sessionChanged>>

(* string += value: undefined is appended as the text "undefined" *)
StringOf(d) == IF d = Undefined THEN <<"undefined">> ELSE d

(* mutant: a content event hands its own fragment to the commit *)
OnContent_CommitsFragment ==
  /\ Yielded("content")
  /\ currentStreamContent' = currentStreamContent \o StringOf(HeadParse.value.data)
  /\ scheduleRender(StringOf(HeadParse.value.data))
  /\ pendingLines' = Tail(pendingLines)
  /\ yielded' = Append(yielded, HeadParse.value)
  /\ pc' = NextLinePc
  /\ UNCHANGED <<isLoading, sessionId, status, isCached, currentSources,
                 assistantMessageIndexRef, now, served, wire, buffer,
                 decoderHeld, requests, pendingOps, caught, call, sessionChanged>>

OnContent ==
  /\ Yielded("content")
  /\ currentStreamContent' = currentStreamContent \o StringOf(HeadParse.value.data)
  /\ scheduleRender(currentStreamContent \o StringOf(HeadParse.value.data))
  /\ pendingLines' = Tail(pendingLines)
  /\ yielded' = Append(yielded, HeadParse.value)
  /\ pc' = NextLinePc
  /\ UNCHANGED <<isLoading, sessionId, status, isCached, currentSources,
                 assistantMessageIndexRef, now, served, wire, buffer,
                 decoderHeld, requests, pendingOps, caught, call, sessionChanged>>

(* chunk.type of the value null: the TypeError is thrown in the loop body *)
(* and caught by the catch block of sendMessage                           *)
OnNull ==
  /\ pc = "lines"
  /\ HeadParse.ok
  /\ HeadParse.value = JsonNull
  /\ CatchFinally(Error(<<"TypeError">>))

(* a value whose .type matches no branch of the chain *)
OnOther ==
  /\ pc = "lines"
  /\ HeadParse.ok
  /\ HeadParse.value # JsonNull
  /\ HeadParse.value.type \notin EventTypes
  /\ pendingLines' = Tail(pendingLines)
  /\ yielded' = Append(yielded, HeadParse.value)
  /\ pc' = NextLinePc
  /\ UNCHANGED <<served, wire, buffer, decoderHeld, chatVars, refVars,
                 now, rafQueue, requests, pendingOps, caught, call, commitCount,
                 sessionChanged>>

(* throw new Error(chunk.data) *)
OnError ==
  /\ Yielded("error")
  /\ CatchFinally(Error(HeadParse.value.data))

(* mutant: the stream end cancels the scheduled commit and forgets to run it *)
StreamEndCommit_NoFlush ==
  /\ pc = "read"
  /\ wire = <<>>
  /\ rafQueue' = IF rafIdRef # NoRaf THEN rafQueue \ {rafIdRef} ELSE rafQueue
  /\ rafIdRef' = NoRaf
  /\ pc' = "final"
  /\ UNCHANGED <<messages, pendingContentRef, lastRenderTimeRef, commitCount,
                 isLoading, sessionId, status, isCached, currentStreamContent,
                 currentSources, assistantMessageIndexRef, now, served, wire,
                 buffer, decoderHeld, pendingLines, yielded, requests, pendingOps,
                 caught, call, sessionChanged>>

(* done: lines 155-159, the forced last commit *)
StreamEndCommit ==
  /\ pc = "read"
  /\ wire = <<>>
  /\ rafQueue' = IF rafIdRef # NoRaf THEN rafQueue \ {rafIdRef} ELSE rafQueue
  /\ rafIdRef' = NoRaf
  /\ updateStreamingMessage(pendingContentRef)
  /\ pc' = "final"
  /\ UNCHANGED <<isLoading, sessionId, status, isCached, currentStreamContent,
                 currentSources, assistantMessageIndexRef, now, served, wire,
                 buffer, decoderHeld, pendingLines, yielded, requests, pendingOps,
                 caught, call, sessionChanged>>

(* lines 161-173 and the finally block *)
StreamEndFlag ==
  /\ pc = "final"
  /\ messages' = PatchAssistant(messages, assistantMessageIndexRef,
                   [isStreaming |-> FALSE])
  /\ isLoading' = FALSE
  /\ pc' = "done"
  /\ buffer' = <<>>
  /\ decoderHeld' = <<>>
  /\ yielded' = <<>>
  /\ UNCHANGED <<sessionId, status, isCached, refVars, now, rafQueue, served,
                 wire, pendingLines, requests, pendingOps, caught, call,
                 commitCount, sessionChanged>>

(* ---------------- useChat: user operations ---------------- *)
(* mutant: the guard forgets the in-flight check *)
Rejects_EmptyOnly(text) == Trim(text) = <<>>

(* !content.trim() || isLoading *)
Rejects(text) == Trim(text) = <<>> \/ isLoading

(* mutant: the index is taken before the user message is appended *)
sendMessage_StaleIndex(text) ==
  /\ TaskBoundary
  /\ IF Rejects(text)
     THEN /\ call' = [flip |-> ~call.flip, text |-> text, accepted |-> FALSE]
          /\ UNCHANGED <<chatVars, refVars, now, rafQueue, pc, streamVars,
                         requests, pendingOps, caught, commitCount,
                         sessionChanged>>
     ELSE /\ Len(requests) < MaxTurns
          /\ call' = [flip |-> ~call.flip, text |-> text, accepted |-> TRUE]
          /\ messages' = messages \o
               << [role |-> "user", content |-> Trim(text)],
                  [role |-> "assistant", content |-> <<>>, isStreaming |-> TRUE] >>
          /\ assistantMessageIndexRef' = Len(messages)
          /\ isLoading' = TRUE
          /\ currentStreamContent' = <<>>
          /\ pendingContentRef' = <<>>
          /\ currentSources' = <<>>
          /\ lastRenderTimeRef' = 0
          /\ status' = StatusConnecting
          /\ isCached' = FALSE
          /\ requests' = Append(requests,
               [message |-> text, session_id |-> sessionId, stream |-> TRUE])
          /\ pc' = "fetch"
          /\ commitCount' = 0
          /\ caught' = NoError
          /\ sessionChanged' = FALSE
          /\ served' = <<>>
          /\ wire' = <<>>
          /\ buffer' = <<>>
          /\ decoderHeld' = <<>>
          /\ pendingLines' = <<>>
          /\ yielded' = <<>>
          /\ UNCHANGED <<sessionId, rafIdRef, rafQueue, now, pendingOps>>

(* sendMessage up to the request it opens *)
sendMessage(text) ==
  /\ TaskBoundary
  /\ IF Rejects(text)
     THEN /\ call' = [flip |-> ~call.flip, text |-> text, accepted |-> FALSE]
          /\ UNCHANGED <<chatVars, refVars, now, rafQueue, pc, streamVars,
                         requests, pendingOps, caught, commitCount,
                         sessionChanged>>
     ELSE /\ Len(requests) < MaxTurns
          /\ call' = [flip |-> ~call.flip, text |-> text, accepted |-> TRUE]
          /\ messages' = messages \o
               << [role |-> "user", content |-> Trim(text)],
                  [role |-> "assistant", content |-> <<>>, isStreaming |-> TRUE] >>
          /\ assistantMessageIndexRef' = Len(messages) + 1
          /\ isLoading' = TRUE
          /\ currentStreamContent' = <<>>
          /\ pendingContentRef' = <<>>
          /\ currentSources' = <<>>
          /\ lastRenderTimeRef' = 0
          /\ status' = StatusConnecting
          /\ isCached' = FALSE
          /\ requests' = Append(requests,
               [message |-> text, session_id |-> sessionId, stream |-> TRUE])
          /\ pc' = "fetch"
          /\ commitCount' = 0
          /\ caught' = NoError
          /\ sessionChanged' = FALSE
          /\ served' = <<>>
          /\ wire' = <<>>
          /\ buffer' = <<>>
          /\ decoderHeld' = <<>>
          /\ pendingLines' = <<>>
          /\ yielded' = <<>>
          /\ UNCHANGED <<sessionId, rafIdRef, rafQueue, now, pendingOps>>

startNewChat ==
  /\ TaskBoundary
  /\ messages' = <<>>
  /\ sessionId' = Null
  /\ status' = <<>>
  /\ isCached' = FALSE
  /\ sessionChanged' = TRUE
  /\ UNCHANGED <<isLoading, refVars, now, rafQueue, pc, streamVars, requests,
                 pendingOps, caught, call, commitCount>>

Op(kind, sid) == [op |-> kind, sid |-> sid]

(* clearChat up to its await; without a session id it runs to its end *)
clearChat ==
  /\ TaskBoundary
  /\ IF sessionId # Null
     THEN /\ Cardinality(pendingOps) < MaxPending
          /\ Op("clear", sessionId) \notin pendingOps
          /\ pendingOps' = pendingOps \cup {Op("clear", sessionId)}
          /\ UNCHANGED <<messages, sessionId, sessionChanged>>
     ELSE /\ messages' = <<>>
          /\ sessionId' = Null
          /\ sessionChanged' = TRUE
          /\ UNCHANGED pendingOps
  /\ UNCHANGED <<isLoading, status, isCached, refVars, now, rafQueue, pc,
                 streamVars, requests, caught, call, commitCount>>

(* clearSession resolved: the rest of clearChat *)
ClearChatResume(o) ==
  /\ TaskBoundary
  /\ o \in pendingOps /\ o.op = "clear"
  /\ pendingOps' = pendingOps \ {o}
  /\ messages' = <<>>
  /\ sessionId' = Null
  /\ sessionChanged' = TRUE
  /\ UNCHANGED <<isLoading, status, isCached, refVars, now, rafQueue, pc,
                 streamVars, requests, caught, call, commitCount>>

(* loadSession up to its await *)
loadSession(sid) ==
  /\ TaskBoundary
  /\ Cardinality(pendingOps) < MaxPending
  /\ Op("load", sid) \notin pendingOps
  /\ pendingOps' = pendingOps \cup {Op("load", sid)}
  /\ UNCHANGED <<chatVars, refVars, now, rafQueue, pc, streamVars, requests,
                 caught, call, commitCount, sessionChanged>>

(* getSessionMessages resolved: the rest of the try block of loadSession *)
LoadSessionResume(o) ==
  /\ TaskBoundary
  /\ o \in pendingOps /\ o.op = "load"
  /\ pendingOps' = pendingOps \ {o}
  /\ sessionId' = o.sid
  /\ messages' = LoadedMessages(o.sid)
  /\ sessionChanged' = TRUE
  /\ UNCHANGED <<isLoading, status, isCached, refVars, now, rafQueue, pc,
                 streamVars, requests, caught, call, commitCount>>

(* the awaited request of clearChat or loadSession rejects *)
OpFails(o) ==
  /\ TaskBoundary
  /\ o \in pendingOps
  /\ pendingOps' = pendingOps \ {o}
  /\ UNCHANGED <<chatVars, refVars, now, rafQueue, pc, streamVars, requests,
                 caught, call, commitCount, sessionChanged>>

(* the bodies of a conversation of several turns: session ids, content,   *)
(* malformed frames and errors                                             *)
ConversationBodies ==
  { fs \in FrameLists :
      \A i \in 1..Len(fs) : /\ fs[i].type \notin {"sources", "status", "cached"}
                            /\ fs[i].kind \notin {"null", "number", "nodata"} }

(* a chunk that ends where a frame ends, or that is the unterminated rest *)
FrameAligned(k) ==
  /\ k \in 2..Len(wire)
  /\ \/ SubSeq(wire, k - 1, k) = Delim
     \/ /\ k = Len(wire)
        /\ \A j \in 2..Len(wire) : SubSeq(wire, j - 1, j) # Delim

(* The conversation under every interleaving of turns, animation frames    *)
(* and session operations.  Chunks end at frame ends here (a chunk that    *)
(* ends inside a frame only moves units from wire to buffer) and only      *)
(* accepted sendMessage calls are taken (a rejected call changes `call`    *)
(* alone); the bodies are those of ConversationBodies.  SpecStream has     *)
(* every chunking, every body and the rejected calls.                      *)
Next ==
  \/ \E text \in Texts : ~Rejects(text) /\ sendMessage(text)
        /\ UNCHANGED componentVars
  \/ \E fs \in ConversationBodies : FetchOk(fs) /\ UNCHANGED componentVars
  \/ \E err \in FetchErrors : FetchFail(err) /\ UNCHANGED componentVars
  \/ \E k \in 1..MaxChunk : FrameAligned(k) /\ ReadChunk(k)
        /\ UNCHANGED componentVars
  \/ \E err \in ReadErrors : ReadFail(err) /\ UNCHANGED componentVars
  \/ SkipLine /\ UNCHANGED componentVars
  \/ OnSessionId /\ UNCHANGED componentVars
  \/ OnContent /\ UNCHANGED componentVars
  \/ OnError /\ UNCHANGED componentVars
  \/ StreamEndCommit /\ UNCHANGED componentVars
  \/ StreamEndFlag /\ UNCHANGED componentVars
  \/ \E id \in rafQueue : RafCallback(id) /\ UNCHANGED componentVars
  \/ Tick /\ UNCHANGED componentVars
  \/ startNewChat /\ UNCHANGED componentVars
  \/ clearChat /\ UNCHANGED componentVars
  \/ \E o \in pendingOps : ClearChatResume(o) /\ UNCHANGED componentVars
  \/ \E sid \in SessionIds : loadSession(sid) /\ UNCHANGED componentVars
  \/ \E o \in pendingOps : LoadSessionResume(o) /\ UNCHANGED componentVars
  \/ \E o \in pendingOps : OpFails(o) /\ UNCHANGED componentVars

Spec == Init /\ [][Next]_vars

(* One turn of one conversation, read in chunks of every size, with every  *)
(* timing of clock and animation frames and with rejected submissions.     *)
NextStream ==
  \/ \E text \in Texts :
        (isLoading \/ Trim(text) = <<>> \/ requests = <<>>) /\ sendMessage(text)
        /\ UNCHANGED componentVars
  \/ \E fs \in FrameLists : FetchOk(fs) /\ UNCHANGED componentVars
  \/ \E err \in FetchErrors : FetchFail(err) /\ UNCHANGED componentVars
  \/ \E k \in 1..MaxChunk : ReadChunk(k) /\ UNCHANGED componentVars
  \/ \E err \in ReadErrors : ReadFail(err) /\ UNCHANGED componentVars
  \/ SkipLine /\ UNCHANGED componentVars
  \/ OnSessionId /\ UNCHANGED componentVars
  \/ OnSources /\ UNCHANGED componentVars
  \/ OnStatus /\ UNCHANGED componentVars
  \/ OnCached /\ UNCHANGED componentVars
  \/ OnContent /\ UNCHANGED componentVars
  \/ OnError /\ UNCHANGED componentVars
  \/ OnNull /\ UNCHANGED componentVars
  \/ OnOther /\ UNCHANGED componentVars
  \/ StreamEndCommit /\ UNCHANGED componentVars
  \/ StreamEndFlag /\ UNCHANGED componentVars
  \/ \E id \in rafQueue : RafCallback(id) /\ UNCHANGED componentVars
  \/ Tick /\ UNCHANGED componentVars

SpecStream == Init /\ [][NextStream]_vars

(* ---------------- components/ChatInput: suggestions ---------------- *)
(* the values typed into the textarea *)
Values == { <<>>, <<"a">>, <<" ", "a", " ">>, <<"a", "b">>, <<"a", "b", "c">> }

(* what GET /suggestions may answer for a query: nothing, or one entry *)
Responses(query) == { <<>>, <<Trim(query) \o <<"?">>>> }

(* !query.trim() || query.trim().length < 2 *)
TooShort(query) == Trim(query) = <<>> \/ Len(Trim(query)) < MinQueryLength

(* fetchSuggestions up to its await *)
fetchSuggestions(query) ==
  IF TooShort(query)
  THEN /\ suggestions' = <<>>
       /\ showSuggestions' = FALSE
       /\ shortQuery' = TRUE
       /\ UNCHANGED <<lookups, lookupCount>>
  ELSE /\ lookups' = lookups \cup {[id |-> lookupCount + 1, query |-> query]}
       /\ lookupCount' = lookupCount + 1
       /\ shortQuery' = FALSE
       /\ UNCHANGED <<suggestions, showSuggestions>>

(* mutant: the pending timer is not cleared *)
handleInputChange_NoClear(value) ==
  /\ lastKeystroke.count < MaxKeystrokes
  /\ input' = value
  /\ timers' = timers \cup
       {[id |-> lastKeystroke.count + 1, value |-> value, due |-> clock + DebounceMs]}
  /\ debounceTimerRef' = lastKeystroke.count + 1
  /\ lastKeystroke' = [count |-> lastKeystroke.count + 1, at |-> clock, value |-> value]
  /\ UNCHANGED <<suggestions, showSuggestions, selectedIndex, clock, lookups,
                 lookupCount, shortQuery>>

(* onChange of the textarea *)
handleInputChange(value) ==
  /\ lastKeystroke.count < MaxKeystrokes
  /\ input' = value
  /\ timers' = {t \in timers : t.id # debounceTimerRef} \cup
       {[id |-> lastKeystroke.count + 1, value |-> value, due |-> clock + DebounceMs]}
  /\ debounceTimerRef' = lastKeystroke.count + 1
  /\ lastKeystroke' = [count |-> lastKeystroke.count + 1, at |-> clock, value |-> value]
  /\ UNCHANGED <<suggestions, showSuggestions, selectedIndex, clock, lookups,
                 lookupCount, shortQuery>>

(* the callback given to setTimeout runs: not before its delay has passed *)
DebounceTimerFires(t) ==
  /\ t \in timers
  /\ clock >= t.due
  /\ timers' = timers \ {t}
  /\ fetchSuggestions(t.value)
  /\ UNCHANGED <<input, selectedIndex, debounceTimerRef, clock, lastKeystroke>>

(* getSuggestions resolved: the rest of the try block of fetchSuggestions *)
GetSuggestionsResolves(l, data) ==
  /\ l \in lookups
  /\ lookups' = lookups \ {l}
  /\ IF Len(data) > 0
     THEN /\ suggestions' = data
          /\ showSuggestions' = TRUE
          /\ selectedIndex' = NoSelection
     ELSE /\ showSuggestions' = FALSE
          /\ UNCHANGED <<suggestions, selectedIndex>>
  /\ UNCHANGED <<input, debounceTimerRef, clock, timers, lookupCount,
                 lastKeystroke, shortQuery>>

(* getSuggestions rejected: the catch block only logs *)
GetSuggestionsRejects(l) ==
  /\ l \in lookups
  /\ lookups' = lookups \ {l}
  /\ UNCHANGED <<input, suggestions, showSuggestions, selectedIndex,
                 debounceTimerRef, clock, timers, lookupCount, lastKeystroke,
                 shortQuery>>

handleSelectSuggestion(i) ==
  /\ showSuggestions
  /\ i \in 1..Len(suggestions)
  /\ input' = suggestions[i]
  /\ showSuggestions' = FALSE
  /\ UNCHANGED <<suggestions, selectedIndex, debounceTimerRef, clock, timers,
                 lookups, lookupCount, lastKeystroke, shortQuery>>

(* handleKeyDown: ArrowDown, ArrowUp and Escape while the list is shown *)
ArrowDown ==
  /\ showSuggestions /\ Len(suggestions) > 0
  /\ selectedIndex' =
       IF selectedIndex < Len(suggestions) - 1 THEN selectedIndex + 1
       ELSE selectedIndex
  /\ selectedIndex' # selectedIndex
  /\ UNCHANGED <<input, suggestions, showSuggestions, debounceTimerRef, clock,
                 timers, lookups, lookupCount, lastKeystroke, shortQuery>>

ArrowUp ==
  /\ showSuggestions /\ Len(suggestions) > 0
  /\ selectedIndex' = IF selectedIndex > 0 THEN selectedIndex - 1 ELSE NoSelection
  /\ selectedIndex' # selectedIndex
  /\ UNCHANGED <<input, suggestions, showSuggestions, debounceTimerRef, clock,
                 timers, lookups, lookupCount, lastKeystroke, shortQuery>>

(* Escape, or a mouse press outside the textarea and the list *)
HideSuggestions ==
  /\ showSuggestions
  /\ showSuggestions' = FALSE
  /\ UNCHANGED <<input, suggestions, selectedIndex, debounceTimerRef, clock,
                 timers, lookups, lookupCount, lastKeystroke, shortQuery>>

(* handleSubmit with onSend = sendMessage of useChat *)
handleSubmit ==
  /\ Trim(input) # <<>>
  /\ ~isLoading
  /\ sendMessage(Trim(input))
  /\ input' = <<>>
  /\ showSuggestions' = FALSE
  /\ UNCHANGED <<suggestions, selectedIndex, debounceTimerRef, clock, timers,
                 lookups, lookupCount, lastKeystroke, shortQuery>>
  /\ UNCHANGED revealVars

ClockTick ==
  /\ clock + ClockStep <= MaxClock
  /\ clock' = clock + ClockStep
  /\ UNCHANGED <<input, suggestions, showSuggestions, selectedIndex,
                 debounceTimerRef, timers, lookups, lookupCount, lastKeystroke,
                 shortQuery>>

(* The input box: keystrokes, debounce timers, lookups in flight and their *)
(* answers in every order, selection, submission.                          *)
NextSuggest ==
  \/ \E value \in Values : handleInputChange(value) /\ UNCHANGED <<vars, revealVars>>
  \/ \E t \in timers : DebounceTimerFires(t) /\ UNCHANGED <<vars, revealVars>>
  \/ \E l \in lookups : \E data \in Responses(l.query) :
        GetSuggestionsResolves(l, data) /\ UNCHANGED <<vars, revealVars>>
  \/ \E l \in lookups : GetSuggestionsRejects(l) /\ UNCHANGED <<vars, revealVars>>
  \/ \E i \in 1..Len(suggestions) : handleSelectSuggestion(i) /\ UNCHANGED <<vars, revealVars>>
  \/ ArrowDown /\ UNCHANGED <<vars, revealVars>>
  \/ ArrowUp /\ UNCHANGED <<vars, revealVars>>
  \/ HideSuggestions /\ UNCHANGED <<vars, revealVars>>
  \/ handleSubmit
  \/ ClockTick /\ UNCHANGED <<vars, revealVars>>

SpecSuggest == Init /\ [][NextSuggest]_<<vars, suggestVars, revealVars>>

(* ---------------- components/MessageList: TextPart ---------------- *)
(* the text a part is mounted with and the pieces its target grows by *)
InitialContents == { <<>>, <<"a">> }
Pieces == { <<"b">>, <<" ">>, <<".", "c">>, <<",">>, <<"U+3002">> }

(* the characters of the two template strings of typeNextChar; those     *)
(* outside ASCII are written by their code point                          *)
CjkPunctuation ==
  {"U+FF0C", "U+3002", "U+FF01", "U+FF1F", "U+FF1B", "U+FF1A", "\"", "'",
   "U+FF08", "U+FF09"}
AsciiPunctuation == {",", ".", "!", "?", ";", ":", "(", ")", "\"", "'"}

(* mutant: every character gets the baseline delay *)
Delay_Uniform(char) == BaselineDelay

(* the delay typeNextChar chooses after the character it stops at *)
Delay(char) ==
  IF char = " " THEN SpaceDelay
  ELSE IF char \in CjkPunctuation THEN CjkPunctuationDelay
  ELSE IF char \in AsciiPunctuation THEN AsciiPunctuationDelay
  ELSE BaselineDelay

(* Math.floor(Math.random() * 2) + 1 *)
ChunkSizes == {1, 2}

Min(a, b) == IF a <= b THEN a ELSE b

IsPrefix(p, s) == Len(p) <= Len(s) /\ p = SubSeq(s, 1, Len(p))

(* clearTimeout(id) *)
ClearTimeout(ts, id) == {t \in ts : t.id # id}

(* mutant: the reveal restarts at the first character *)
typeNextChar_FromStart(targetText, currentIndex, chunkSize, ts, typing) ==
  IF currentIndex < Len(targetText)
  THEN LET idx == Min(chunkSize, Len(targetText))
           id == CHOOSE i \in 1..(Cardinality(ts) + 1) : \A t \in ts : t.id # i
       IN /\ pendingDisplayed' = SubSeq(targetText, 1, idx)
          /\ typingTimers' = ts \cup
               {[id |-> id, targetText |-> targetText, currentIndex |-> idx,
                 delay |-> Delay(targetText[idx]), owner |-> instance]}
          /\ typingTimeoutRef' = id
          /\ isTyping' = typing
  ELSE /\ isTyping' = FALSE
       /\ typingTimers' = ts
       /\ UNCHANGED <<pendingDisplayed, typingTimeoutRef>>

(* one run of typeNextChar in the closure (targetText, currentIndex); ts   *)
(* are the timers pending and typing the value of isTyping before it       *)
typeNextChar(targetText, currentIndex, chunkSize, ts, typing) ==
  IF currentIndex < Len(targetText)
  THEN LET idx == Min(currentIndex + chunkSize, Len(targetText))
           id == CHOOSE i \in 1..(Cardinality(ts) + 1) : \A t \in ts : t.id # i
       IN /\ pendingDisplayed' = SubSeq(targetText, 1, idx)
          /\ typingTimers' = ts \cup
               {[id |-> id, targetText |-> targetText, currentIndex |-> idx,
                 delay |-> Delay(targetText[idx]), owner |-> instance]}
          /\ typingTimeoutRef' = id
          /\ isTyping' = typing
  ELSE /\ isTyping' = FALSE
       /\ typingTimers' = ts
       /\ UNCHANGED <<pendingDisplayed, typingTimeoutRef>>

(* a part is mounted in the slot, the first one or one that takes the     *)
(* place of an unmounted one: useState(content), useState(showCursor),    *)
(* useRef(null)                                                           *)
Mount(c, sc) ==
  /\ mounted \in {"no", "gone"}
  /\ instance < MaxMounts
  /\ instance' = instance + 1
  /\ mounted' = "yes"
  /\ content' = c
  /\ showCursor' = sc
  /\ displayedContent' = c
  /\ isTyping' = sc
  /\ typingTimeoutRef' = NoTimer
  /\ pendingDisplayed' = NoUpdate
  /\ hasCleanup' = FALSE
  /\ effectPending' = TRUE
  /\ UNCHANGED typingTimers

(* the parent renders the part with a longer content or with the          *)
(* streaming flag off; state updates made since the last render are       *)
(* applied, and effects of the last render have run before                *)
ParentRenders(piece, sc) ==
  /\ mounted = "yes"
  /\ ~effectPending
  /\ piece # <<>> \/ sc # showCursor
  /\ showCursor \/ ~sc
  /\ Len(content) + Len(piece) <= MaxTarget
  /\ content' = content \o piece
  /\ showCursor' = sc
  /\ displayedContent' =
       IF pendingDisplayed # NoUpdate THEN pendingDisplayed ELSE displayedContent
  /\ pendingDisplayed' = NoUpdate
  /\ effectPending' = TRUE
  /\ UNCHANGED <<isTyping, typingTimeoutRef, typingTimers, hasCleanup, mounted,
                 instance>>

(* the part renders again because setDisplayedContent was called *)
Render ==
  /\ mounted = "yes"
  /\ ~effectPending
  /\ pendingDisplayed # NoUpdate
  /\ displayedContent' = pendingDisplayed
  /\ pendingDisplayed' = NoUpdate
  /\ effectPending' = (Len(pendingDisplayed) # Len(displayedContent))
  /\ UNCHANGED <<content, showCursor, isTyping, typingTimeoutRef, typingTimers,
                 hasCleanup, mounted, instance>>

(* mutant: with the flag off the effect leaves the pacing timer running *)
RunEffect_KeepsTimer(chunkSize) ==
  /\ mounted = "yes"
  /\ effectPending
  /\ effectPending' = FALSE
  /\ LET ts == ClearTimeout(typingTimers, typingTimeoutRef)
     IN IF ~showCursor
        THEN /\ pendingDisplayed' = content
             /\ isTyping' = FALSE
             /\ hasCleanup' = FALSE
             /\ UNCHANGED <<typingTimeoutRef, typingTimers>>
        ELSE /\ hasCleanup' = TRUE
             /\ IF Len(content) > Len(displayedContent)
                THEN typeNextChar(content, Len(displayedContent), chunkSize,
                                  ts, TRUE)
                ELSE /\ typingTimeoutRef' = NoTimer
                     /\ typingTimers' = ts
                     /\ UNCHANGED <<pendingDisplayed, isTyping>>
  /\ UNCHANGED <<content, showCursor, displayedContent, mounted, instance>>

(* the effect of the last render: the cleanup of the previous run, then    *)
(* the body with the props and the state of that render                    *)
RunEffect(chunkSize) ==
  /\ mounted = "yes"
  /\ effectPending
  /\ effectPending' = FALSE
  /\ LET ts == ClearTimeout(typingTimers, typingTimeoutRef)
     IN IF ~showCursor
        THEN /\ pendingDisplayed' = content
             /\ isTyping' = FALSE
             /\ typingTimeoutRef' = NoTimer
             /\ typingTimers' = ts
             /\ hasCleanup' = FALSE
        ELSE /\ hasCleanup' = TRUE
             /\ IF Len(content) > Len(displayedContent)
                THEN typeNextChar(content, Len(displayedContent), chunkSize,
                                  ts, TRUE)
                ELSE /\ typingTimeoutRef' = NoTimer
                     /\ typingTimers' = ts
                     /\ UNCHANGED <<pendingDisplayed, isTyping>>
  /\ UNCHANGED <<content, showCursor, displayedContent, mounted, instance>>

(* a pacing timer runs typeNextChar in the closure it was set in; the      *)
(* state setters of an unmounted instance do nothing, its closure still   *)
(* sets the next timer                                                     *)
TypingTimerFires(t, chunkSize) ==
  /\ t \in typingTimers
  /\ IF mounted = "yes" /\ t.owner = instance
     THEN typeNextChar(t.targetText, t.currentIndex, chunkSize,
                       typingTimers \ {t}, isTyping)
     ELSE /\ typingTimers' =
               (typingTimers \ {t}) \cup
               (IF t.currentIndex < Len(t.targetText)
                THEN {[t EXCEPT !.currentIndex =
                                  Min(@ + chunkSize, Len(t.targetText)),
                                !.delay =
                                  Delay(t.targetText[Min(t.currentIndex + chunkSize,
                                                         Len(t.targetText))])]}
                ELSE {})
          /\ UNCHANGED <<pendingDisplayed, typingTimeoutRef, isTyping>>
  /\ UNCHANGED <<content, showCursor, displayedContent, effectPending,
                 hasCleanup, mounted, instance>>

(* mutant: the effect returns no cleanup function *)
Unmount_NoCleanup ==
  /\ mounted = "yes"
  /\ ~effectPending
  /\ mounted' = "gone"
  /\ UNCHANGED <<content, showCursor, displayedContent, isTyping,
                 typingTimeoutRef, pendingDisplayed, effectPending, hasCleanup,
                 typingTimers, instance>>

(* the part is unmounted: the cleanup of the last effect run *)
Unmount ==
  /\ mounted = "yes"
  /\ ~effectPending
  /\ mounted' = "gone"
  /\ typingTimers' =
       IF hasCleanup THEN ClearTimeout(typingTimers, typingTimeoutRef)
       ELSE typingTimers
  /\ UNCHANGED <<content, showCursor, displayedContent, isTyping,
                 typingTimeoutRef, pendingDisplayed, effectPending, hasCleanup,
                 instance>>

(* The text parts mounted one after the other in one slot of the list:     *)
(* the target of a part grows by appending, its streaming flag goes off,   *)
(* and renders, effects and pacing timers run in every order React allows. *)
NextReveal ==
  \/ \E c \in InitialContents, sc \in BOOLEAN :
        Mount(c, sc) /\ UNCHANGED <<vars, suggestVars>>
  \/ \E piece \in Pieces \cup {<<>>}, sc \in BOOLEAN :
        ParentRenders(piece, sc) /\ UNCHANGED <<vars, suggestVars>>
  \/ Render /\ UNCHANGED <<vars, suggestVars>>
  \/ \E n \in ChunkSizes : RunEffect(n) /\ UNCHANGED <<vars, suggestVars>>
  \/ \E t \in typingTimers, n \in ChunkSizes :
        TypingTimerFires(t, n) /\ UNCHANGED <<vars, suggestVars>>
  \/ Unmount /\ UNCHANGED <<vars, suggestVars>>

SpecReveal == Init /\ [][NextReveal]_<<vars, suggestVars, revealVars>>

(* ---------------- properties ---------------- *)
Placeholder == messages[assistantMessageIndexRef + 1]

PlaceholderInPlace ==
  /\ ~sessionChanged
  /\ IsAssistantAt(messages, assistantMessageIndexRef)

(* the content fragments a frame list carries, concatenated in order *)
RECURSIVE ContentFragments(_)
ContentFragments(fs) ==
  IF fs = <<>> THEN <<>>
  ELSE (IF Head(fs).kind = "event" /\ Head(fs).type = "content"
        THEN Head(fs).data ELSE <<>>) \o ContentFragments(Tail(fs))

(* C1: when a turn without session change has ended normally, the          *)
(* placeholder's content is the concatenation, in arrival order, of the    *)
(* content fragments of the response, for every chunking and every timing  *)
(* of the animation frames.                                                *)
C1_FinalContentIsConcatenation ==
  (pc = "done" /\ ~sessionChanged) =>
     /\ IsAssistantAt(messages, assistantMessageIndexRef)
     /\ Placeholder.content = ContentFragments(served)

(* a turn of three content characters ended normally after a commit that   *)
(* came from an animation-frame callback or from the forced last commit    *)
C1_Witness ==
  /\ pc = "done"
  /\ ~sessionChanged
  /\ Len(ContentFragments(served)) >= 2
  /\ commitCount >= 2
  /\ Placeholder.content = ContentFragments(served)

StreamingIndices == { i \in 1..Len(messages) : IsStreaming(messages[i]) }

(* C2: in every reachable state at most one message of the list has        *)
(* isStreaming = true.                                                     *)
C2_AtMostOneStreaming == Cardinality(StreamingIndices) <= 1

(* C3: once a turn with accumulated content has been ended by an error     *)
(* event, the placeholder shows the error text with isStreaming = false    *)
(* for as long as no new turn and no session operation replaces it.        *)
C3_ErrorFinalizationIsStable ==
  (/\ pc = "failed"
   /\ caught \in { Error(f.data) : f \in { g \in Range(served) : g.type = "error" } }
   /\ currentStreamContent # <<>>
   /\ ~sessionChanged)
  => /\ IsAssistantAt(messages, assistantMessageIndexRef)
     /\ Placeholder.content = ErrorContent(caught)
     /\ ~IsStreaming(Placeholder)

(* C4: a sendMessage call whose text is empty after trimming, or that is    *)
(* made while isLoading is true, changes no state of the hook and opens no *)
(* request; a request is opened only in the step of an accepted call, for  *)
(* the text of that call, so a rejected submission never runs later.       *)
C4_RejectedSubmitChangesNothing ==
  [][ /\ (call' # call /\ (Trim(call'.text) = <<>> \/ isLoading))
         => UNCHANGED <<chatVars, refVars, rafQueue, pc, streamVars, requests,
                        pendingOps, caught>>
      /\ (requests' # requests)
         => /\ call' # call
            /\ ~isLoading
            /\ Trim(call'.text) # <<>>
            /\ Len(requests') = Len(requests) + 1
            /\ requests'[Len(requests')].message = call'.text ]_vars

(* a submission with text was rejected because a turn is in flight *)
C4_Witness ==
  /\ ~call.accepted
  /\ Trim(call.text) # <<>>
  /\ isLoading
  /\ pc = "read"

(* a blank submission was rejected while no turn was in flight *)
C4_WitnessBlank ==
  /\ ~call.accepted
  /\ call.flip
  /\ call.text = <<" ">>
  /\ ~isLoading

(* C5: a sendMessage call with text that is not blank, made while no turn  *)
(* is in flight, appends the user message (trimmed text) and then an empty *)
(* assistant placeholder with isStreaming = true, keeps every earlier      *)
(* message, records the placeholder's index and opens exactly one request. *)
C5_AcceptedSubmitAppendsTwo ==
  [][ (call' # call /\ Trim(call'.text) # <<>> /\ ~isLoading)
      => /\ Len(messages') = Len(messages) + 2
         /\ SubSeq(messages', 1, Len(messages)) = messages
         /\ messages'[Len(messages) + 1] =
              [role |-> "user", content |-> Trim(call'.text)]
         /\ messages'[Len(messages) + 2] =
              [role |-> "assistant", content |-> <<>>, isStreaming |-> TRUE]
         /\ assistantMessageIndexRef' = Len(messages) + 1
         /\ Len(requests') = Len(requests) + 1
         /\ SubSeq(requests', 1, Len(requests)) = requests
         /\ isLoading' ]_vars

(* a second submission was accepted behind the two messages of the first *)
C5_Witness ==
  /\ call.accepted
  /\ pc = "fetch"
  /\ Len(messages) = 4
  /\ Len(requests) = 2
  /\ assistantMessageIndexRef = 3
  /\ messages[3] = [role |-> "user", content |-> <<"h">>]
  /\ messages[4] = [role |-> "assistant", content |-> <<>>, isStreaming |-> TRUE]

(* C6: at the normal end of a stream the scheduled commit is cancelled and *)
(* the placeholder holds the whole accumulated text while isStreaming is   *)
(* still true; the flag is cleared after that, and when the turn has ended *)
(* nothing accumulated is left uncommitted.                                *)
C6_StreamEndCommitsEverything ==
  /\ (pc = "final" /\ ~sessionChanged)
     => /\ rafIdRef = NoRaf
        /\ rafQueue = {}
        /\ pendingContentRef = <<>>
        /\ Placeholder.content = currentStreamContent
        /\ IsStreaming(Placeholder)
  /\ (pc = "done" /\ ~sessionChanged)
     => /\ rafIdRef = NoRaf
        /\ rafQueue = {}
        /\ pendingContentRef = <<>>
        /\ Placeholder.content = currentStreamContent
        /\ ~IsStreaming(Placeholder)

(* the stream ended less than 16 ms after a commit, with newer content     *)
(* accumulated since, and the forced commit has written it                 *)
C6_Witness ==
  /\ pc = "final"
  /\ ~sessionChanged
  /\ commitCount >= 2
  /\ lastRenderTimeRef = now
  /\ now >= minFrameTime
  /\ Len(currentStreamContent) >= 2
  /\ Placeholder.content = currentStreamContent

(* a step in which updateStreamingMessage wrote (or would have written)    *)
(* the pending text                                                        *)
CommitStep == commitCount' = commitCount + 1

(* C7: within one turn a commit that is not the forced one at stream end   *)
(* comes at least minFrameTime after the previous commit of that turn,     *)
(* whether it runs on a content event or from an animation-frame callback. *)
C7_CommitsAtLeastIntervalApart ==
  [][ (CommitStep /\ commitCount >= 1 /\ pc' # "final")
      => now - lastRenderTimeRef >= minFrameTime ]_vars

(* C8: a commit writes the accumulator as it is when the commit runs; a    *)
(* content event that finds a commit scheduled replaces the text that      *)
(* commit will write and requests no second animation frame; at most one   *)
(* requested callback is pending, the one rafIdRef names.                  *)
C8_CommitWritesLatestSnapshot ==
  /\ [](/\ Cardinality(rafQueue) <= 1
        /\ rafQueue = (IF rafIdRef = NoRaf THEN {} ELSE {rafIdRef})
        /\ pendingContentRef \in {<<>>, currentStreamContent})
  /\ [][ /\ (CommitStep /\ IsAssistantAt(messages', assistantMessageIndexRef'))
            => messages'[assistantMessageIndexRef' + 1].content
                 = currentStreamContent'
         /\ (Yielded("content") /\ pendingLines' # pendingLines /\ rafQueue # {})
            => /\ pendingContentRef' = currentStreamContent'
               /\ currentStreamContent' =
                    currentStreamContent \o StringOf(HeadParse.value.data)
               /\ rafQueue' = rafQueue
               /\ rafIdRef' = rafIdRef
               /\ messages' = messages ]_vars

(* two fragments arrived while one commit was scheduled: the callback that *)
(* is still pending will write both                                        *)
C8_Witness ==
  /\ pc \in {"lines", "read"}
  /\ rafQueue = {rafIdRef}
  /\ Len(currentStreamContent) >= 2
  /\ pendingContentRef = currentStreamContent
  /\ Placeholder.content = <<>>

(* the callback has run and the placeholder shows both fragments *)
C8_WitnessCommitted ==
  /\ pc \in {"lines", "read"}
  /\ rafQueue = {}
  /\ commitCount = 1
  /\ Len(currentStreamContent) >= 2
  /\ Placeholder.content = currentStreamContent

MalformedBetweenContent(fs) ==
  \E i, j, k \in 1..Len(fs) :
    /\ i < j /\ j < k
    /\ fs[i].kind = "event" /\ fs[i].type = "content"
    /\ fs[j].kind = "truncated"
    /\ fs[k].kind = "event" /\ fs[k].type = "content"

(* C10: a frame whose payload is not valid JSON changes neither the        *)
(* accumulator nor the messages and does not end the turn; when it stands  *)
(* between two valid content frames, the turn that reaches its end has     *)
(* both fragments, in order, as the placeholder's content.                 *)
C10_MalformedFrameIsSkipped ==
  /\ []((MalformedBetweenContent(served) /\ pc = "done" /\ ~sessionChanged)
        => /\ Placeholder.content = ContentFragments(served)
           /\ ~IsStreaming(Placeholder)
           /\ caught = NoError)
  /\ [][ (pc = "lines" /\ ~HeadParse.ok /\ pendingLines' # pendingLines)
         => /\ pc' \in {"lines", "read"}
            /\ pendingLines' = Tail(pendingLines)
            /\ UNCHANGED <<chatVars, refVars, rafQueue, caught, commitCount>> ]_vars

(* the turn with the malformed frame ended normally with "ab" *)
C10_Witness ==
  /\ pc = "done"
  /\ MalformedBetweenContent(served)
  /\ Placeholder.content = <<"a", "b">>
  /\ ~IsStreaming(Placeholder)

(* ---------------- C11: chunking ---------------- *)
(* what the for-await loop does with one line: the event, if it has one *)
ParseLine(line) ==
  IF StartsWith(line, DataPrefix)
  THEN JSONParse(SubSeq(line, 3, Len(line)))
  ELSE [ok |-> FALSE, value |-> Ev("none", <<>>)]

RECURSIVE EventsOf(_)
EventsOf(lines) ==
  IF lines = <<>> THEN <<>>
  ELSE (IF ParseLine(Head(lines)).ok THEN <<ParseLine(Head(lines)).value>>
        ELSE <<>>) \o EventsOf(Tail(lines))

(* the complete lines of a text: all pieces of the split but the last *)
CompleteLines(text) == SubSeq(Split(text), 1, Len(Split(text)) - 1)

(* the events of a body that is read in one single chunk *)
EventsInOneChunk(fs) == EventsOf(CompleteLines(DecodeChars(Encode(fs))))

(* the units of the body that have been read so far *)
ReadSoFar == SubSeq(Encode(served), 1, Len(Encode(served)) - Len(wire))

(* C11: while a body is read, in chunks of any size, the events yielded    *)
(* so far followed by the events the rest of the body will give are the    *)
(* events of the body read in one chunk, so the yielded sequence does not  *)
(* depend on the chunking and is in frame order; and the events yielded    *)
(* or about to be yielded are those of the frames whose closing blank      *)
(* line has been read.                                                     *)
C11_EventsIndependentOfChunking ==
  pc \in {"read", "lines", "final"} =>
    /\ yielded \o EventsOf(pendingLines
                    \o CompleteLines(buffer \o DecodeChars(decoderHeld \o wire)))
         = EventsInOneChunk(served)
    /\ yielded \o EventsOf(pendingLines)
         = EventsOf(CompleteLines(DecodeChars(ReadSoFar)))

(* a chunk ended between the two bytes of a character after an event was   *)
(* yielded, and the body was then read to its end                         *)
C11_Witness ==
  /\ pc = "final"
  /\ yielded = EventsInOneChunk(served)
  /\ Len(yielded) = 3
  /\ yielded[3].data = <<"E">>

(* a chunk ends inside a character: its lead byte is held back *)
C11_WitnessSplitCharacter ==
  /\ pc = "read"
  /\ decoderHeld = <<"e1">>
  /\ Len(yielded) = 2

(* a chunk ends between the two newlines of the blank line *)
C11_WitnessSplitDelimiter ==
  /\ pc = "read"
  /\ buffer # <<>>
  /\ buffer[Len(buffer)] = "NL"
  /\ wire # <<>>
  /\ Head(wire) = "NL"

(* ---------------- C12: a body that ends inside a frame ---------------- *)
(* the body ends with data that no blank line closes *)
UnterminatedRest(fs) ==
  LET pieces == Split(DecodeChars(Encode(fs)))
  IN pieces[Len(pieces)] # <<>>

(* C12: a turn whose body ended inside a frame, with unterminated data     *)
(* left in the buffer, does not reach the normal completion: it ends as a  *)
(* failed turn, its placeholder finalized with an error string.            *)
C12_TruncatedBodyIsTransportError ==
  (served # <<>> /\ UnterminatedRest(served)) => pc \notin {"final", "done"}

(* ---------------- C13: the session id of a conversation ---------------- *)
(* the id in use came from the server: only a session_id event sets an id  *)
(* that no saved session carries                                           *)
SetByServer == sessionId # Null /\ sessionId \notin SessionIds

(* C13: an id adopted from the server keeps its value in every step taken  *)
(* while no startNewChat, clearChat or loadSession is called or awaited    *)
(* (startNewChat, the only one of them that runs in one step, sets null),  *)
(* and every request opened carries the id in use as session_id.           *)
C13_SessionIdKeptUntilReset ==
  /\ [][ (SetByServer /\ pendingOps = {} /\ pendingOps' = {}
            /\ sessionId' # sessionId)
         => sessionId' = Null ]_vars
  /\ [][ requests' # requests
         => requests'[Len(requests')].session_id = sessionId ]_vars

(* ---------------- C14: session operations during a turn ---------------- *)
(* a step of the sendMessage call in flight or of a commit it scheduled *)
TurnStep ==
  \/ pc' # pc
  \/ pendingLines' # pendingLines
  \/ rafQueue' # rafQueue
  \/ commitCount' # commitCount

(* C14: once startNewChat, clearChat or a successful loadSession has set   *)
(* the session id and the messages while a turn was in flight, no later    *)
(* event, commit or finalization of that turn changes the session id or    *)
(* the messages.                                                           *)
C14_SessionOperationOutlivesTurn ==
  [][ (sessionChanged /\ sessionChanged' /\ TurnStep)
      => (sessionId' = sessionId /\ messages' = messages) ]_vars

(* ---------------- C15: citations ---------------- *)
RECURSIVE SourcesEvents(_)
SourcesEvents(fs) ==
  IF fs = <<>> THEN <<>>
  ELSE (IF Head(fs).kind = "event" /\ Head(fs).type = "sources"
        THEN <<Head(fs).data>> ELSE <<>>) \o SourcesEvents(Tail(fs))

(* the list carried by the last sources event of a body that has one *)
LastSources(fs) == SourcesEvents(fs)[Len(SourcesEvents(fs))]

(* C15: when a turn whose body carried sources events has ended normally,  *)
(* the citation list of its placeholder is the list of the last sources    *)
(* event, wherever that event stood among the content events.              *)
C15_CitationsAreLastSourcesEvent ==
  (pc = "done" /\ SourcesEvents(served) # <<>>)
    => /\ "sources" \in DOMAIN Placeholder
       /\ Placeholder.sources = LastSources(served)

(* ---------------- C16: status and cached events ---------------- *)
(* the loop body runs for the event at the head of pendingLines *)
HandlesEvent(t) == Yielded(t) /\ pendingLines' # pendingLines

(* C16: the step for a status event changes the status string alone; the   *)
(* step for a cached event changes the cached flag and the status string   *)
(* alone; neither touches the messages, the accumulator, the session id    *)
(* or a scheduled commit.  A content event after a cached event is         *)
(* accumulated and committed by the same rule as any content event, and    *)
(* the turn ends with all its content.                                     *)
C16_StatusAndCachedTouchOnlyTheirFields ==
  /\ [][ HandlesEvent("status")
         => /\ status' = HeadParse.value.data
            /\ UNCHANGED <<messages, isLoading, sessionId, isCached, refVars,
                           rafQueue, commitCount, caught>> ]_vars
  /\ [][ HandlesEvent("cached")
         => /\ isCached'
            /\ status' = StatusFromCache
            /\ UNCHANGED <<messages, isLoading, sessionId, refVars, rafQueue,
                           commitCount, caught>> ]_vars
  /\ [][ (isCached /\ HandlesEvent("content"))
         => /\ currentStreamContent'
                 = currentStreamContent \o HeadParse.value.data
            /\ (commitCount' = commitCount + 1)
                 <=> (rafIdRef = NoRaf /\ now - lastRenderTimeRef >= minFrameTime)
            /\ (commitCount' = commitCount + 1)
                 => Placeholder'.content = currentStreamContent'
            /\ (rafQueue' # rafQueue)
                 <=> (rafIdRef = NoRaf /\ now - lastRenderTimeRef < minFrameTime)
            /\ UNCHANGED <<isCached, status, sessionId>> ]_vars
  /\ []((isCached /\ pc = "done") => Placeholder.content = ContentFragments(served))

(* a turn served from the cache has ended with its content *)
C16_Witness ==
  /\ pc = "done"
  /\ isCached
  /\ status = StatusFromCache
  /\ Placeholder.content = <<"a">>

(* ---------------- C17: overlapping lookups ---------------- *)
(* C17: the response of a lookup after which another lookup was issued     *)
(* changes neither the suggestion list nor its visibility.                 *)
C17_StaleResponseNeverApplied ==
  [][ \A l \in lookups \ lookups' :
        l.id < lookupCount => UNCHANGED <<suggestions, showSuggestions>> ]_suggestVars

(* ---------------- C18: the debounce timer ---------------- *)
(* C18: at most one debounce timer is pending; a keystroke leaves exactly  *)
(* one timer, its own, due 300 ms later; a timer runs fetchSuggestions     *)
(* only when at least 300 ms have passed since the last keystroke, and     *)
(* for the value of that keystroke, so a burst gives at most one lookup.   *)
C18_LookupOnlyAfterQuietPeriod ==
  /\ [](Cardinality(timers) <= 1)
  /\ [][ lastKeystroke' # lastKeystroke
         => timers' = {[id |-> debounceTimerRef', value |-> input',
                        due |-> clock + DebounceMs]} ]_suggestVars
  /\ [][ (timers' # timers /\ lastKeystroke' = lastKeystroke)
         => /\ clock - lastKeystroke.at >= DebounceMs
            /\ timers' = {}
            /\ \A t \in timers : t.value = lastKeystroke.value
            /\ lookupCount' <= lookupCount + 1
            /\ \A l \in lookups' \ lookups : l.query = lastKeystroke.value ]_suggestVars
  /\ [][ lookupCount' # lookupCount
         => (timers' # timers /\ lastKeystroke' = lastKeystroke) ]_suggestVars
  /\ [](lookupCount <= lastKeystroke.count)

(* three keystrokes in a burst, then one lookup, for the last value *)
C18_Witness ==
  /\ lastKeystroke.count = 3
  /\ lastKeystroke.value = <<"a", "b", "c">>
  /\ lookupCount = 1
  /\ \E l \in lookups : l.query = <<"a", "b", "c">>

(* ---------------- C19: short queries ---------------- *)
(* C19: no request is in flight for a query whose trimmed length is below  *)
(* 2; when fetchSuggestions has run for such a query the list is empty and *)
(* hidden, and stays so until a request is issued.                         *)
C19_ShortQueryKeepsListEmpty ==
  /\ \A l \in lookups : Len(Trim(l.query)) >= MinQueryLength
  /\ shortQuery => (suggestions = <<>> /\ ~showSuggestions)

(* ---------------- C20: the displayed prefix ---------------- *)
(* C20: while the part is mounted and its target grows by appending, the   *)
(* displayed text is a prefix of the target in every state, so is every    *)
(* text waiting to be rendered, and no step makes the displayed text       *)
(* shorter.                                                                *)
C20_DisplayedPrefixNeverShrinks ==
  /\ [](mounted = "yes"
        => /\ IsPrefix(displayedContent, content)
           /\ pendingDisplayed # NoUpdate => IsPrefix(pendingDisplayed, content))
  /\ [][ (mounted = "yes" /\ mounted' = "yes")
         => /\ Len(displayedContent') >= Len(displayedContent)
            /\ IsPrefix(displayedContent, displayedContent') ]_revealVars

(* the target grew from "a" to "ab.c" while streaming and the reveal has   *)
(* reached a strict prefix of it                                           *)
C20_Witness ==
  /\ mounted = "yes"
  /\ showCursor
  /\ content = <<"a", "b", ".", "c">>
  /\ Len(displayedContent) \in {2, 3}

(* ---------------- C21: the streaming flag goes off ---------------- *)
(* C21: the effect of the render that has the streaming flag off passes    *)
(* the full target to setDisplayedContent and leaves no pacing timer;      *)
(* once that effect has run no timer is pending and the text shown or      *)
(* about to be shown is the full target; and while the flag is off the     *)
(* rendered text changes to the full target only (the one before or the    *)
(* one after the render), whatever timer callback ran in between.          *)
C21_FlagOffShowsFullTarget ==
  /\ [][ (mounted = "yes" /\ ~showCursor /\ effectPending /\ ~effectPending')
         => /\ pendingDisplayed' = content
            /\ typingTimers' = {}
            /\ typingTimeoutRef' = NoTimer ]_revealVars
  /\ []((mounted = "yes" /\ ~showCursor /\ ~effectPending)
        => /\ typingTimers = {}
           /\ IF pendingDisplayed = NoUpdate THEN displayedContent = content
              ELSE pendingDisplayed = content)
  /\ [][ (mounted = "yes" /\ ~showCursor /\ ~showCursor')
         => displayedContent' \in {displayedContent, content, content'} ]_revealVars

(* the flag went off while the reveal was behind its target: the effect    *)
(* has queued the full target and no timer is left                         *)
C21_Witness ==
  /\ mounted = "yes"
  /\ ~showCursor
  /\ ~effectPending
  /\ Len(displayedContent) < Len(content)
  /\ pendingDisplayed = content
  /\ typingTimers = {}

(* ---------------- C22: the delay after a character ---------------- *)
(* the character a pending timer was set after *)
RevealedChar(t) == t.targetText[t.currentIndex]

SentenceEnding == {".", "!", "?", "U+3002", "U+FF01", "U+FF1F"}
ClauseMarks == {",", ";", ":", "U+FF0C", "U+FF1B", "U+FF1A"}

C22_WitnessCjk ==
  \E t \in typingTimers : RevealedChar(t) = "U+3002" /\ t.delay = 80


(* ---------------- C23: what a running turn may write ---------------- *)
(* C23: a step of the turn in flight other than its submit (an event, a    *)
(* commit, the final flag update, the error finalization) changes no       *)
(* message before the last one, and once loadSession, startNewChat or      *)
(* clearChat has replaced the list, in which no message of the turn's      *)
(* submit is left, it changes no message at all.                           *)
C23_TurnWritesOnlyItsPlaceholder ==
  [][ (TurnStep /\ call' = call)
      => /\ Len(messages') = Len(messages)
         /\ \A i \in 1..(Len(messages) - 1) : messages'[i] = messages[i]
         /\ sessionChanged => messages' = messages ]_vars


(* ---------------- C24: scheduled commits at the end of a turn ---------------- *)
(* C24: when the sendMessage call has returned, after the stream's end or  *)
(* after a failure, no animation-frame callback is pending.                *)
C24_NoScheduledCommitAfterTurn ==
  pc \in {"idle", "done", "failed"} => rafQueue = {}

(* ---------------- C25: no streaming flag outside a turn ---------------- *)
(* C25: when isLoading is false, no message has isStreaming = true.        *)
C25_NoStreamingWhenNotLoading ==
  ~isLoading => \A i \in 1..Len(messages) : ~IsStreaming(messages[i])


(* ---------------- C26: JSON values that are not events ---------------- *)
(* an object {type, data} with a known type and data of the expected kind *)
WellFormed(v) ==
  /\ v # JsonNull
  /\ v.type \in EventTypes
  /\ v.data # Undefined

(* C26: the step that handles a frame whose payload parses as JSON but is  *)
(* not a well-formed event changes neither the accumulator nor the         *)
(* messages and does not end the turn.                                     *)
C26_NonEventValueIsDiscarded ==
  [][ (pc = "lines" /\ HeadParse.ok /\ ~WellFormed(HeadParse.value))
      => /\ currentStreamContent' = currentStreamContent
         /\ messages' = messages
         /\ isLoading' = isLoading
         /\ pc' \in {"lines", "read"} ]_vars


(* ---------------- C27: what a content event does ---------------- *)
(* C27: the step of a content event commits the new accumulated value if   *)
(* at least minFrameTime has passed since the last commit, whether or not  *)
(* an animation-frame callback is pending; if less has passed it commits   *)
(* nothing and leaves exactly one callback pending.                        *)
C27_ContentEventCommitsOrSchedules ==
  [][ (Yielded("content") /\ pendingLines' # pendingLines)
      => IF now - lastRenderTimeRef >= minFrameTime
         THEN /\ CommitStep
              /\ IsAssistantAt(messages', assistantMessageIndexRef)
                 => messages'[assistantMessageIndexRef + 1].content
                      = currentStreamContent'
         ELSE /\ ~CommitStep
              /\ Cardinality(rafQueue') = 1 ]_vars


(* ---------------- C28: the pace of the reveal ---------------- *)
(* a run of typeNextChar that reveals characters *)
RevealStep ==
  /\ mounted = "yes" /\ mounted' = "yes"
  /\ showCursor
  /\ typingTimeoutRef' # NoTimer
  /\ typingTimers' # typingTimers

(* the length the reveal had reached before the step *)
RevealedLength ==
  IF pendingDisplayed # NoUpdate /\ Len(pendingDisplayed) > Len(displayedContent)
  THEN Len(pendingDisplayed)
  ELSE Len(displayedContent)

(* a reveal step adds at most 2 characters *)
StepAtMostTwo ==
  [][ RevealStep => Len(pendingDisplayed') <= RevealedLength + 2 ]_revealVars

(* a reveal step made by an effect run continues from the displayed length *)
ContinuesFromDisplayed ==
  [][ (RevealStep /\ effectPending /\ ~effectPending')
      => /\ Len(pendingDisplayed') > Len(displayedContent)
         /\ IsPrefix(displayedContent, pendingDisplayed') ]_revealVars

(* no reveal step is made by an effect run while the timer that the        *)
(* previous step for the same target set is still pending                  *)
PacedByTimer ==
  [][ (RevealStep /\ effectPending /\ ~effectPending')
      => ~ \E t \in typingTimers :
             t.id = typingTimeoutRef /\ t.targetText = content ]_revealVars

(* C28: while the part streams, a reveal step adds at most 2 characters,   *)
(* continues from the displayed length when the target has grown, and a    *)
(* step after the first one for a target is made only by the expiry of     *)
(* the timer that the previous step set.                                   *)
C28_RevealPacedByTimer ==
  /\ StepAtMostTwo
  /\ ContinuesFromDisplayed
  /\ PacedByTimer


(* ---------------- C29: one pacing timer, torn down with its part ---------------- *)
(* C29: at most one pacing timer is pending; a pending timer belongs to    *)
(* the part that is mounted, so none is left when the part is unmounted    *)
(* and none of an earlier part is pending while another part is in the     *)
(* slot; once the effect of the last render has run, the pending timer was *)
(* set for the content of that render; and a step that sets a timer        *)
(* leaves no other timer pending.                                          *)
C29_OneTimerTornDownWithItsPart ==
  /\ [](/\ Cardinality(typingTimers) <= 1
        /\ \A t \in typingTimers : mounted = "yes" /\ t.owner = instance
        /\ (mounted = "yes" /\ ~effectPending)
           => \A t \in typingTimers : t.targetText = content)
  /\ [][ (typingTimers' # typingTimers /\ typingTimers' # {})
         => typingTimers' = {t \in typingTimers' : t.id = typingTimeoutRef'} ]_revealVars
  /\ [][ (mounted = "yes" /\ pendingDisplayed' # pendingDisplayed
          /\ pendingDisplayed' # NoUpdate)
         => IsPrefix(pendingDisplayed', content) ]_revealVars

(* a second part has taken the slot of an unmounted one and has set its    *)
(* own pacing timer, the only one pending                                  *)
C29_Witness ==
  /\ mounted = "yes"
  /\ instance = 2
  /\ showCursor
  /\ \E t \in typingTimers : t.owner = 2 /\ t.currentIndex < Len(content)


(* ---------------- C30: the placeholder during a turn ---------------- *)
(* the sendMessage call is in flight and has caught no error *)
Streaming == pc \in {"fetch", "read", "lines", "final"}

(* C30: while a turn is in flight that has met no error and no session     *)
(* operation, the placeholder's content is a prefix of the accumulated     *)
(* text, and no step of the turn makes it shorter.                         *)
C30_PlaceholderIsPrefixOfAccumulated ==
  /\ []((Streaming /\ PlaceholderInPlace)
        => IsPrefix(Placeholder.content, currentStreamContent))
  /\ [][ (Streaming /\ Streaming' /\ PlaceholderInPlace /\ PlaceholderInPlace'
          /\ call' = call)
         => /\ Len(Placeholder'.content) >= Len(Placeholder.content)
            /\ IsPrefix(Placeholder.content, Placeholder'.content) ]_vars

(* the first fragment has been committed and a longer accumulated text     *)
(* waits for its commit                                                    *)
C30_Witness ==
  /\ Streaming
  /\ PlaceholderInPlace
  /\ commitCount >= 1
  /\ Len(Placeholder.content) >= 1
  /\ Len(Placeholder.content) < Len(currentStreamContent)
  /\ pendingContentRef = currentStreamContent

====
